---------------------------- MODULE Spec2Model ----------------------------
(* Model of backend/routes/search.py: the /search/suggestions endpoint.     *)
(* One invocation of get_search_suggestions is a small state machine whose  *)
(* states are the two await points (the suggest call, the LLM call) and the *)
(* return.  Text is a sequence of one-character strings, so that strip,     *)
(* find, rfind, slicing and JSON decoding are computed, not assumed.        *)
EXTENDS Integers, Sequences, FiniteSets, TLC

VARIABLES
    request,      \* the caller's arguments [q, limit], never reassigned
    q,            \* the local q    (reassigned at line 118)
    limit,        \* the local limit (reassigned at line 119)
    pc,           \* "start" | "await_google" | "await_llm" | "done" | "raised"
    inflight,     \* the outbound calls currently awaited
    googleCalls,  \* number of calls of _google_autocomplete
    llmCalls,     \* number of calls of _llm_suggestions
    gArgs,        \* the arguments passed to _google_autocomplete
    lArgs,        \* the arguments passed to _llm_suggestions
    gResp,        \* what the suggest source answered
    lResp,        \* what the LLM source answered
    gOut,         \* outcome of _google_autocomplete: [raised, val]
    lOut,         \* outcome of _llm_suggestions: [raised, val]
    log,          \* sequence of log levels emitted
    response      \* the SuggestionsResponse returned

vars == <<request, q, limit, pc, inflight, googleCalls, llmCalls, gArgs, lArgs,
          gResp, lResp, gOut, lOut, log, response>>

-----------------------------------------------------------------------------
(* Bounds of the model *)

MaxQLen == 3
MaxItems == 2
MaxContentLen == 2

(* Program constants *)
ClampLo == 1
ClampHi == 10

QChars == {"x", " "}
Limits == {-1, 0, 1, 2, 3, 5, 11}
ContentChars == {"[", "]", "\"", ",", "1", "x", " "}

SeqsUpTo(S, n) == UNION {[1..k -> S] : k \in 0..n}

Min2(a, b) == IF a < b THEN a ELSE b
Max2(a, b) == IF a > b THEN a ELSE b

-----------------------------------------------------------------------------
(* Python string and list primitives *)

Whitespace == {" "}
Digits == {"1", "2"}

\* str.strip(): drop leading and trailing whitespace
PyStrip(s) ==
    LET keep == {i \in 1..Len(s) : s[i] \notin Whitespace}
    IN  IF keep = {} THEN <<>>
        ELSE LET lo == CHOOSE i \in keep : \A j \in keep : i <= j
                 hi == CHOOSE i \in keep : \A j \in keep : i >= j
             IN  SubSeq(s, lo, hi)

\* str.startswith(c) for a one-character c
PyStartsWith(s, c) == Len(s) >= 1 /\ s[1] = c

\* str.find(c): 0-based index of the first c, -1 if none
PyFind(s, c) ==
    LET hits == {i \in 1..Len(s) : s[i] = c}
    IN  IF hits = {} THEN -1
        ELSE (CHOOSE i \in hits : \A j \in hits : i <= j) - 1

\* str.rfind(c): 0-based index of the last c, -1 if none
PyRFind(s, c) ==
    LET hits == {i \in 1..Len(s) : s[i] = c}
    IN  IF hits = {} THEN -1
        ELSE (CHOOSE i \in hits : \A j \in hits : i >= j) - 1

\* s[a:b] for 0 <= a
PySlice(s, a, b) == SubSeq(s, a + 1, Min2(b, Len(s)))

\* s[:n], n of either sign
PyTake(s, n) ==
    IF n >= 0 THEN SubSeq(s, 1, Min2(n, Len(s)))
    ELSE SubSeq(s, 1, Max2(Len(s) + n, 0))

\* [s for s in items if isinstance(s, str)]
StrItems(items) ==
    LET sel == SelectSeq(items, LAMBDA e : e.isStr)
    IN  [i \in 1..Len(sel) |-> sel[i].text]

StrElem(t) == [isStr |-> TRUE, text |-> t]
NonStrElem(t) == [isStr |-> FALSE, text |-> t]

-----------------------------------------------------------------------------
(* json.loads on the model's alphabet: arrays, strings, unsigned integers,  *)
(* blanks between tokens.  Any other character makes the text invalid.      *)

\* index of the first non-blank at or after i, Len(s)+1 if none
SkipWs(s, i) ==
    LET rest == {j \in i..Len(s) : s[j] \notin Whitespace}
    IN  IF rest = {} THEN Len(s) + 1
        ELSE CHOOSE j \in rest : \A k \in rest : j <= k

\* s[i] is a quote: index after the closing quote, 0 if unterminated
StringEnd(s, i) ==
    LET close == {j \in (i + 1)..Len(s) : s[j] = "\""}
    IN  IF close = {} THEN 0
        ELSE (CHOOSE j \in close : \A k \in close : j <= k) + 1

\* s[i] is a digit: index after the run of digits
NumberEnd(s, i) ==
    LET stop == {j \in i..Len(s) : s[j] \notin Digits}
    IN  IF stop = {} THEN Len(s) + 1
        ELSE CHOOSE j \in stop : \A k \in stop : j <= k

RECURSIVE ValueEnd(_, _)
RECURSIVE ElemsEnd(_, _)

\* index after the JSON value starting at i, 0 if there is none
ValueEnd(s, i) ==
    IF i > Len(s) THEN 0
    ELSE IF s[i] = "\"" THEN StringEnd(s, i)
    ELSE IF s[i] \in Digits THEN NumberEnd(s, i)
    ELSE IF s[i] = "["
         THEN LET j == SkipWs(s, i + 1)
              IN  IF j <= Len(s) /\ s[j] = "]" THEN j + 1 ELSE ElemsEnd(s, j)
    ELSE 0

\* j starts an element of an open array: index after the array's "]", 0 if invalid
ElemsEnd(s, j) ==
    LET e == ValueEnd(s, j)
    IN  IF e = 0 THEN 0
        ELSE LET k == SkipWs(s, e)
             IN  IF k > Len(s) THEN 0
                 ELSE IF s[k] = "]" THEN k + 1
                 ELSE IF s[k] = "," THEN ElemsEnd(s, SkipWs(s, k + 1))
                 ELSE 0

RECURSIVE ArrayItems(_, _)
\* the elements of a valid array, j being the first non-blank after its "["
ArrayItems(s, j) ==
    IF s[j] = "]" THEN <<>>
    ELSE LET e == ValueEnd(s, j)
             item == IF s[j] = "\"" THEN StrElem(SubSeq(s, j + 1, e - 2))
                     ELSE NonStrElem(SubSeq(s, j, e - 1))
             k == SkipWs(s, e)
         IN  <<item>> \o (IF s[k] = "]" THEN <<>>
                          ELSE ArrayItems(s, SkipWs(s, k + 1)))

\* json.loads(s): ok is FALSE where json.loads raises
json_loads(s) ==
    LET i == SkipWs(s, 1)
        e == ValueEnd(s, i)
        ok == e # 0 /\ SkipWs(s, e) > Len(s)
        isList == ok /\ s[i] = "["
    IN  [ok |-> ok, isList |-> isList,
         items |-> IF isList THEN ArrayItems(s, SkipWs(s, i + 1)) ELSE <<>>]

-----------------------------------------------------------------------------
(* The two external sources: everything they can answer *)

\* exceptions the outbound calls raise; all are subclasses of Exception
SuggestFailures == {"timeout", "http_status", "malformed_body"}
LlmFailures == {"api_error", "no_choices"}

ItemValues == {StrElem(<<"a">>), StrElem(<<"b">>), NonStrElem(<<"1">>)}

\* r.json() seen through the tests of line 54
GoogleData(isList, len, secondIsList, second) ==
    [kind |-> "ok", isList |-> isList, len |-> len,
     secondIsList |-> secondIsList, second |-> second]

GoogleResponses ==
    {[kind |-> k, isList |-> FALSE, len |-> 0, secondIsList |-> FALSE,
      second |-> <<>>] : k \in SuggestFailures}
    \cup {GoogleData(FALSE, 0, FALSE, <<>>)}
    \cup {GoogleData(TRUE, n, FALSE, <<>>) : n \in 0..2}
    \cup {GoogleData(TRUE, 2, TRUE, items) : items \in SeqsUpTo(ItemValues, MaxItems)}

\* message.content texts beyond the exhaustive short ones:
\*   x ["a","b"]      prose, then an array
\*   x["a"]           prose glued to an array
\*   x[]              prose, then an empty array
\*   x[]x             an empty array inside prose
\*    []x             blank, empty array, trailing prose
\*    ["a"]x          blank, array, trailing prose
\*   []x              an empty array followed by prose
\*   ["a"]x           an array followed by prose
\*   [ ]              an empty array holding a blank
\*   [""]             an array of one empty string
\*   ["a","b","c"]    a bare array
\*    ["a","b"]       a bare array between blanks
\*   [ "a" , "b" ]    blanks between the tokens
\*   ["a",1,"b"]      an array with a non-string element
\*   [1]              an array of one number
\*   [[]]             an array of one array
\*   x[1,[]]          an array with no string element
\*   x[[],"a"]        a nested array before a string
\*   ["a",]           a trailing comma
\*   ["a" "b"]        a missing comma
\*   [x]              a bare word in an array
\*   x["a"]]          a stray closing bracket
\*   x["a"]y["b"]     two arrays
\*   ]x[              brackets the wrong way round
\*   "a"              a JSON string, no array
\*   no               prose without brackets
ContentSamples == {
    <<"x", " ", "[", "\"", "a", "\"", ",", "\"", "b", "\"", "]">>,
    <<"x", "[", "\"", "a", "\"", "]">>,
    <<"x", "[", "]">>,
    <<"x", "[", "]", "x">>,
    <<" ", "[", "]", "x">>,
    <<" ", "[", "\"", "a", "\"", "]", "x">>,
    <<"[", "]", "x">>,
    <<"[", "\"", "a", "\"", "]", "x">>,
    <<"[", " ", "]">>,
    <<"[", "\"", "\"", "]">>,
    <<"[", "\"", "a", "\"", ",", "\"", "b", "\"", ",", "\"", "c", "\"", "]">>,
    <<" ", "[", "\"", "a", "\"", ",", "\"", "b", "\"", "]", " ">>,
    <<"[", " ", "\"", "a", "\"", " ", ",", " ", "\"", "b", "\"", " ", "]">>,
    <<"[", "\"", "a", "\"", ",", "1", ",", "\"", "b", "\"", "]">>,
    <<"[", "1", "]">>,
    <<"[", "[", "]", "]">>,
    <<"x", "[", "1", ",", "[", "]", "]">>,
    <<"x", "[", "[", "]", ",", "\"", "a", "\"", "]">>,
    <<"[", "\"", "a", "\"", ",", "]">>,
    <<"[", "\"", "a", "\"", " ", "\"", "b", "\"", "]">>,
    <<"[", "x", "]">>,
    <<"x", "[", "\"", "a", "\"", "]", "]">>,
    <<"x", "[", "\"", "a", "\"", "]", "y", "[", "\"", "b", "\"", "]">>,
    <<"]", "x", "[">>,
    <<"\"", "a", "\"">>,
    <<"n", "o">>}

LlmContents == SeqsUpTo(ContentChars, MaxContentLen) \cup ContentSamples

\* kind "ok_none": the call succeeds and message.content is None
LlmResponses ==
    {[kind |-> k, content |-> <<>>] : k \in LlmFailures \cup {"ok_none"}}
    \cup {[kind |-> "ok", content |-> c] : c \in LlmContents}

-----------------------------------------------------------------------------
(* The code *)

NoOutcome == [raised |-> FALSE, exc |-> "", val |-> <<>>]
Returned(val) == [raised |-> FALSE, exc |-> "", val |-> val]
Raised(exc) == [raised |-> TRUE, exc |-> exc, val |-> <<>>]

\* variant: truncates data[1] before keeping its strings
google_autocomplete_cut_first(resp, qq, lim) ==
    IF resp.kind # "ok" THEN Raised(resp.kind)
    ELSE IF resp.isList /\ resp.len >= 2 /\ resp.secondIsList
         THEN Returned(StrItems(PyTake(resp.second, lim)))
    ELSE Returned(<<>>)

\* _google_autocomplete(q, limit), given what the suggest source answers
google_autocomplete(resp, qq, lim) ==
    IF resp.kind # "ok" THEN Raised(resp.kind)
    ELSE IF resp.isList /\ resp.len >= 2 /\ resp.secondIsList
         THEN Returned(PyTake(StrItems(resp.second), lim))
    ELSE Returned(<<>>)

\* variant: the inline list with "guide" before "how to"
llm_fallback_reordered(qq, lim) ==
    PyTake(<< qq \o <<" ", "t", "u", "t", "o", "r", "i", "a", "l">>,
              qq \o <<" ", "e", "x", "a", "m", "p", "l", "e">>,
              qq \o <<" ", "d", "o", "c", "u", "m", "e", "n", "t", "a", "t", "i", "o", "n">>,
              qq \o <<" ", "g", "u", "i", "d", "e">>,
              <<"h", "o", "w", " ", "t", "o", " ">> \o qq >>, lim)

\* the list built inline at the end of _llm_suggestions
llm_fallback(qq, lim) ==
    PyTake(<< qq \o <<" ", "t", "u", "t", "o", "r", "i", "a", "l">>,
              qq \o <<" ", "e", "x", "a", "m", "p", "l", "e">>,
              qq \o <<" ", "d", "o", "c", "u", "m", "e", "n", "t", "a", "t", "i", "o", "n">>,
              <<"h", "o", "w", " ", "t", "o", " ">> \o qq,
              qq \o <<" ", "g", "u", "i", "d", "e">> >>, lim)

\* variant: the substring ends at the first "]" (find in place of rfind)
llm_parse_first_close(content) ==
    IF PyStartsWith(content, "[") THEN json_loads(content)
    ELSE LET start == PyFind(content, "[")
             end == PyFind(content, "]") + 1
         IN  IF start >= 0 /\ end > start
             THEN json_loads(PySlice(content, start, end))
             ELSE [ok |-> TRUE, isList |-> TRUE, items |-> <<>>]

\* the try block of _llm_suggestions: the value of arr, ok FALSE where it raises
llm_parse(content) ==
    IF PyStartsWith(content, "[") THEN json_loads(content)
    ELSE LET start == PyFind(content, "[")
             end == PyRFind(content, "]") + 1
         IN  IF start >= 0 /\ end > start
             THEN json_loads(PySlice(content, start, end))
             ELSE [ok |-> TRUE, isList |-> TRUE, items |-> <<>>]

\* _llm_suggestions(q, limit), given what the LLM source answers
llm_suggestions(resp, qq, lim) ==
    IF resp.kind \in LlmFailures THEN Raised(resp.kind)
    ELSE LET content == PyStrip(IF resp.kind = "ok_none" THEN <<>> ELSE resp.content)
             arr == llm_parse(content)
         IN  IF arr.ok /\ arr.isList
             THEN Returned(PyTake(StrItems(arr.items), lim))
             ELSE Returned(llm_fallback(qq, lim))

\* variant: the final list without its "how to" entry
final_fallback_four(qq) ==
    << qq \o <<" ", "t", "u", "t", "o", "r", "i", "a", "l">>,
       qq \o <<" ", "e", "x", "a", "m", "p", "l", "e">>,
       qq \o <<" ", "d", "o", "c", "u", "m", "e", "n", "t", "a", "t", "i", "o", "n">>,
       qq \o <<" ", "g", "u", "i", "d", "e">> >>

\* the list "fallback" of get_search_suggestions
final_fallback(qq) ==
    << qq \o <<" ", "t", "u", "t", "o", "r", "i", "a", "l">>,
       qq \o <<" ", "e", "x", "a", "m", "p", "l", "e">>,
       qq \o <<" ", "d", "o", "c", "u", "m", "e", "n", "t", "a", "t", "i", "o", "n">>,
       <<"h", "o", "w", " ", "t", "o", " ">> \o qq,
       qq \o <<" ", "g", "u", "i", "d", "e">> >>

\* variant: the length test without strip
TooShortUnstripped(qq) == qq = <<>> \/ Len(qq) < 2

\* not q or len(q.strip()) < 2
TooShort(qq) == qq = <<>> \/ Len(PyStrip(qq)) < 2

\* variant: the clamp without its lower bound
ClampUpperOnly(lim) == Min2(lim, ClampHi)

\* max(1, min(int(limit), 10))
ClampLimit(lim) == Max2(ClampLo, Min2(lim, ClampHi))

\* variant: "except httpx.HTTPError", which a decoding error or an LLM error is not
CatchesHttpErrorOnly(exc) == exc \in {"timeout", "http_status"}

\* "except Exception": every exception the two sources raise is one
CatchesException(exc) == exc \in SuggestFailures \cup LlmFailures

SuggestionsResponse(suggestions, query) ==
    [suggestions |-> suggestions, query |-> query]

-----------------------------------------------------------------------------
(* One invocation of get_search_suggestions *)

Init ==
    /\ request \in [q : SeqsUpTo(QChars, MaxQLen), limit : Limits]
    /\ q = request.q
    /\ limit = request.limit
    /\ pc = "start"
    /\ inflight = {}
    /\ googleCalls = 0
    /\ llmCalls = 0
    /\ gArgs = [q |-> <<>>, limit |-> 0]
    /\ lArgs = [q |-> <<>>, limit |-> 0]
    /\ gResp = [kind |-> "none", isList |-> FALSE, len |-> 0,
                secondIsList |-> FALSE, second |-> <<>>]
    /\ lResp = [kind |-> "none", content |-> <<>>]
    /\ gOut = NoOutcome
    /\ lOut = NoOutcome
    /\ log = <<>>
    /\ response = SuggestionsResponse(<<>>, <<>>)

\* variant: both sources are called at once
StartBoth ==
    /\ pc = "start"
    /\ IF TooShort(q)
       THEN /\ response' = SuggestionsResponse(<<>>, q)
            /\ pc' = "done"
            /\ UNCHANGED <<q, limit, inflight, googleCalls, llmCalls, gArgs, lArgs>>
       ELSE /\ q' = PyStrip(q)
            /\ limit' = ClampLimit(limit)
            /\ gArgs' = [q |-> q', limit |-> limit']
            /\ lArgs' = [q |-> q', limit |-> limit']
            /\ googleCalls' = googleCalls + 1
            /\ llmCalls' = llmCalls + 1
            /\ inflight' = inflight \cup {"google", "llm"}
            /\ pc' = "await_google"
            /\ UNCHANGED response
    /\ UNCHANGED <<request, gResp, lResp, gOut, lOut, log>>

\* lines 115-123: validate, normalise, issue the suggest call
Start ==
    /\ pc = "start"
    /\ IF TooShort(q)
       THEN /\ response' = SuggestionsResponse(<<>>, q)
            /\ pc' = "done"
            /\ UNCHANGED <<q, limit, inflight, googleCalls, gArgs>>
       ELSE /\ q' = PyStrip(q)
            /\ limit' = ClampLimit(limit)
            /\ gArgs' = [q |-> q', limit |-> limit']
            /\ googleCalls' = googleCalls + 1
            /\ inflight' = inflight \cup {"google"}
            /\ pc' = "await_google"
            /\ UNCHANGED response
    /\ UNCHANGED <<request, llmCalls, lArgs, gResp, lResp, gOut, lOut, log>>

\* lines 123-131: the suggest call ends; return its list or issue the LLM call
GoogleReturns ==
    /\ pc = "await_google"
    /\ \E resp \in GoogleResponses :
         LET out == google_autocomplete(resp, gArgs.q, gArgs.limit)
         IN  /\ gResp' = resp
             /\ gOut' = out
             /\ IF out.raised /\ ~CatchesException(out.exc)
                THEN /\ pc' = "raised"
                     /\ inflight' = inflight \ {"google"}
                     /\ UNCHANGED <<response, log, lArgs, llmCalls>>
                ELSE IF ~out.raised /\ out.val # <<>>
                THEN /\ response' = SuggestionsResponse(PyTake(out.val, limit), q)
                     /\ pc' = "done"
                     /\ inflight' = inflight \ {"google"}
                     /\ UNCHANGED <<log, lArgs, llmCalls>>
                ELSE /\ log' = IF out.raised THEN Append(log, "warning") ELSE log
                     /\ lArgs' = [q |-> q, limit |-> limit]
                     /\ llmCalls' = llmCalls + 1
                     /\ inflight' = (inflight \ {"google"}) \cup {"llm"}
                     /\ pc' = "await_llm"
                     /\ UNCHANGED response
    /\ UNCHANGED <<request, q, limit, googleCalls, gArgs, lResp, lOut>>

\* lines 131-144: the LLM call ends; return its list or the final fallback
LlmReturns ==
    /\ pc = "await_llm"
    /\ \E resp \in LlmResponses :
         LET out == llm_suggestions(resp, lArgs.q, lArgs.limit)
         IN  /\ lResp' = resp
             /\ lOut' = out
             /\ inflight' = inflight \ {"llm"}
             /\ IF ~out.raised
                THEN /\ response' = SuggestionsResponse(PyTake(out.val, limit), q)
                     /\ pc' = "done"
                     /\ UNCHANGED log
                ELSE IF CatchesException(out.exc)
                THEN /\ log' = Append(log, "error")
                     /\ response' = SuggestionsResponse(PyTake(final_fallback(q), limit), q)
                     /\ pc' = "done"
                ELSE /\ pc' = "raised"
                     /\ UNCHANGED <<response, log>>
    /\ UNCHANGED <<request, q, limit, googleCalls, llmCalls, gArgs, lArgs, gResp, gOut>>

Next == Start \/ GoogleReturns \/ LlmReturns

Spec == Init /\ [][Next]_vars

-----------------------------------------------------------------------------
(* What the claims speak of *)

Done == pc = "done"

\* the trimmed query has at least two characters
Proper == Len(PyStrip(request.q)) >= 2

TrimmedQuery == PyStrip(request.q)

\* the requested limit brought into 1..10
EffLimit ==
    IF request.limit < 1 THEN 1
    ELSE IF request.limit > 10 THEN 10
    ELSE request.limit

\* the first n entries of s, n >= 0
First(s, n) == SubSeq(s, 1, IF n < Len(s) THEN n ELSE Len(s))

RECURSIVE StringEntries(_)
\* the string entries of a list of JSON values, in their order
StringEntries(items) ==
    IF items = <<>> THEN <<>>
    ELSE (IF Head(items).isStr THEN <<Head(items).text>> ELSE <<>>)
         \o StringEntries(Tail(items))

\* the five static suggestions for a query
FallbackPattern(qq) ==
    << qq \o <<" ", "t", "u", "t", "o", "r", "i", "a", "l">>,
       qq \o <<" ", "e", "x", "a", "m", "p", "l", "e">>,
       qq \o <<" ", "d", "o", "c", "u", "m", "e", "n", "t", "a", "t", "i", "o", "n">>,
       <<"h", "o", "w", " ", "t", "o", " ">> \o qq,
       qq \o <<" ", "g", "u", "i", "d", "e">> >>

Has(text, c) == \E i \in 1..Len(text) : text[i] = c

\* the text from its first "[" to its last "]", empty if there is no such stretch
Bracketed(text) ==
    LET opens == {i \in 1..Len(text) : text[i] = "["}
        closes == {i \in 1..Len(text) : text[i] = "]"}
    IN  IF opens = {} \/ closes = {} THEN <<>>
        ELSE LET i == CHOOSE a \in opens : \A b \in opens : a <= b
                 j == CHOOSE a \in closes : \A b \in closes : a >= b
             IN  IF i < j THEN SubSeq(text, i, j) ELSE <<>>

\* the suggest source answered an array whose second element holds a string
SuggestHasStrings ==
    /\ gResp.kind = "ok"
    /\ gResp.isList /\ gResp.len >= 2 /\ gResp.secondIsList
    /\ \E i \in 1..Len(gResp.second) : gResp.second[i].isStr

\* the LLM call returned a completion (its text may be None)
LlmAnswered == llmCalls = 1 /\ lResp.kind \in {"ok", "ok_none"}

ValidResponse(r) ==
    /\ DOMAIN r = {"suggestions", "query"}
    /\ \A i \in 1..Len(r.suggestions) :
         \A j \in 1..Len(r.suggestions[i]) : r.suggestions[i][j] \in STRING
    /\ \A j \in 1..Len(r.query) : r.query[j] \in STRING

-----------------------------------------------------------------------------
\* C1: whatever the two sources do (answer, time out, answer a non-2xx status
\* or a malformed body, fail in the LLM call or while its response is read),
\* the invocation never ends by raising, can always take its next step until
\* it has returned, and what it returns is a list of strings and a query.
C1_NeverRaises ==
    /\ pc \in {"start", "await_google", "await_llm", "done"}
    /\ (Done \/ ENABLED Next)
    /\ (Done => ValidResponse(response))

\* both sources failed and a response was returned all the same
C1_Witness ==
    /\ Done
    /\ gResp.kind = "malformed_body"
    /\ lResp.kind = "no_choices"
    /\ log = <<"warning", "error">>
    /\ response.suggestions # <<>>

\* C2: the returned list is never longer than max(1, min(limit, 10)), for
\* every requested limit and whichever source produced the list, and that
\* effective limit is what each source is called with.
C2_LengthWithinLimit ==
    /\ (Done => Len(response.suggestions) <= EffLimit)
    /\ (googleCalls > 0 => gArgs.limit = EffLimit)
    /\ (llmCalls > 0 => lArgs.limit = EffLimit)

\* a limit below 1 with more strings on offer than the effective limit of 1
C2_Witness ==
    /\ Done
    /\ request.limit < 1
    /\ Len(StringEntries(gResp.second)) > EffLimit
    /\ Len(response.suggestions) = EffLimit

\* C3: a query whose trimmed length is below 2 gets an empty list paired with
\* the query as given, untrimmed, and no source is ever contacted for it.
C3_ShortQuery ==
    ~Proper =>
        /\ googleCalls = 0 /\ llmCalls = 0 /\ inflight = {}
        /\ pc \in {"start", "done"}
        /\ (Done => response = SuggestionsResponse(<<>>, request.q))

\* a query of two or more characters that trims to fewer than two
C3_Witness ==
    /\ Done
    /\ Len(request.q) >= 2
    /\ ~Proper
    /\ response.query = request.q
    /\ response.query # TrimmedQuery

\* C4: for a query of trimmed length >= 2, when the suggest source answers an
\* array whose second element is an array holding at least one string, the
\* response is that element's string entries, in order, cut to the effective
\* limit, paired with the trimmed query, and the LLM is never called.
C4_SuggestWins ==
    (Proper /\ SuggestHasStrings) =>
        /\ llmCalls = 0
        /\ pc = "done"
        /\ response = SuggestionsResponse(
               First(StringEntries(gResp.second), EffLimit), TrimmedQuery)

\* a non-string entry is skipped and the query was trimmed
C4_Witness ==
    /\ Done
    /\ SuggestHasStrings
    /\ ~gResp.second[1].isStr
    /\ response.suggestions = <<gResp.second[2].text>>
    /\ request.q # response.query

\* C5, as claimed: when the suggest source fails or yields nothing and the LLM
\* answers a text that does not start with "[" but holds a JSON array between
\* its first "[" and its last "]", the response is that array's strings, in
\* order, cut to the effective limit, paired with the trimmed query.
C5_AsClaimed ==
    (Done /\ Proper /\ llmCalls = 1 /\ lResp.kind = "ok"
          /\ ~PyStartsWith(lResp.content, "[")
          /\ json_loads(Bracketed(lResp.content)).isList) =>
        response = SuggestionsResponse(
            First(StringEntries(json_loads(Bracketed(lResp.content)).items), EffLimit),
            TrimmedQuery)

\* C5, amended: the same, for a text that does not start with "[" once its
\* surrounding whitespace is trimmed.
C5_Amended ==
    (Done /\ Proper /\ llmCalls = 1 /\ lResp.kind = "ok"
          /\ ~PyStartsWith(PyStrip(lResp.content), "[")
          /\ json_loads(Bracketed(lResp.content)).isList) =>
        response = SuggestionsResponse(
            First(StringEntries(json_loads(Bracketed(lResp.content)).items), EffLimit),
            TrimmedQuery)

\* prose before an array of two strings, cut to a limit of 1
C5_Witness ==
    /\ Done
    /\ gResp.kind = "timeout"
    /\ lResp.kind = "ok"
    /\ lResp.content = <<"x", " ", "[", "\"", "a", "\"", ",", "\"", "b", "\"", "]">>
    /\ request.limit = 1
    /\ response.suggestions = << <<"a">> >>

\* C6: for a query of trimmed length >= 2, when the suggest source fails or
\* yields nothing and the LLM call then raises, the response is "{q} tutorial",
\* "{q} example", "{q} documentation", "how to {q}", "{q} guide" for the trimmed
\* q, cut to the effective limit, paired with the trimmed query.
C6_BothFail ==
    (Done /\ Proper /\ llmCalls = 1 /\ lResp.kind \in LlmFailures) =>
        response = SuggestionsResponse(
            First(FallbackPattern(TrimmedQuery), EffLimit), TrimmedQuery)

\* both calls raise, limit 3, a query that needed trimming
C6_Witness ==
    /\ Done
    /\ gResp.kind = "timeout"
    /\ lResp.kind = "api_error"
    /\ request.limit = 3
    /\ request.q # TrimmedQuery
    /\ Len(response.suggestions) = 3
    /\ response.suggestions[3] = TrimmedQuery \o
           <<" ", "d", "o", "c", "u", "m", "e", "n", "t", "a", "t", "i", "o", "n">>

\* C7: for the query at hand and every effective limit 1..10, the list built
\* inline in _llm_suggestions equals, entry for entry, the list
\* get_search_suggestions builds as its last resort.
C7_FallbackSitesAgree ==
    \A l \in ClampLo..ClampHi : llm_fallback(q, l) = PyTake(final_fallback(q), l)

\* the inline site produced the response: the LLM answered invalid JSON
C7_Witness ==
    /\ Done
    /\ lResp.kind = "ok"
    /\ PyStartsWith(lResp.content, "[")
    /\ ~json_loads(lResp.content).ok
    /\ Len(response.suggestions) = 5
    /\ response.suggestions = final_fallback(q)

\* the LLM text, trimmed, cannot be read as a JSON array
LocalParseFailure(text) ==
    \/ text = <<>>
    \/ PyStartsWith(text, "[") /\ ~json_loads(text).ok
    \/ ~Has(text, "[")
    \/ ~Has(text, "]")
    \/ ~PyStartsWith(text, "[") /\ ~json_loads(Bracketed(text)).ok

\* C8, as claimed: whenever the LLM call succeeds and its text cannot be parsed
\* into a JSON array, the LLM step returns the static list for q cut to the
\* limit, and no error is logged or propagated.
C8_AsClaimed ==
    (LlmAnswered /\ LocalParseFailure(PyStrip(lResp.content))) =>
        /\ lOut = Returned(First(FallbackPattern(lArgs.q), lArgs.limit))
        /\ \A i \in 1..Len(log) : log[i] # "error"
        /\ pc # "raised"

\* C9, as claimed: for a query of trimmed length >= 2 the response is the list
\* of the first source, in the order suggest, LLM, static, that yields a
\* non-empty list, also when the LLM step yields an empty one.
C9_AsClaimed ==
    (Done /\ Proper) =>
        LET g == IF gOut.raised THEN <<>> ELSE gOut.val
            l == IF llmCalls = 0 \/ lOut.raised THEN <<>> ELSE lOut.val
            s == First(FallbackPattern(TrimmedQuery), EffLimit)
        IN  response.suggestions =
                IF g # <<>> THEN g ELSE IF l # <<>> THEN l ELSE s

\* C10: in one invocation each source is called at most once, the two calls
\* are never awaited together, and the LLM is called only once the suggest
\* call has ended by raising or by returning an empty list.
C10_Sequential ==
    /\ googleCalls <= 1
    /\ llmCalls <= 1
    /\ Cardinality(inflight) <= 1
    /\ (llmCalls >= 1 =>
           /\ googleCalls = 1
           /\ "google" \notin inflight
           /\ gResp.kind # "none"
           /\ (gOut.raised \/ gOut.val = <<>>))

\* the LLM was called after the suggest call returned an empty list
C10_Witness ==
    /\ Done
    /\ googleCalls = 1 /\ llmCalls = 1
    /\ gResp.kind = "ok"
    /\ gOut = Returned(<<>>)
    /\ inflight = {}

=============================================================================
